---------------------------- MODULE Spec2Model ----------------------------
(***************************************************************************)
(* State Toggle action of the input-remapping host (src/__init__.py).      *)
(*                                                                         *)
(*   StateToggle         the action data: chain_states, num_states         *)
(*   StateToggleWidget   the editor: _states_changed_cb, _record_keys_cb,  *)
(*                       _update_keys                                      *)
(*   StateToggleFunctor  the runtime engine: __init__, process_event       *)
(*                                                                         *)
(* Python lists are modelled as TLA+ sequences; Python indices are 0-based *)
(* and are translated by PyGet / InRange.  The macro queue (MacroManager)  *)
(* and the auto-release registry (ButtonReleaseActions) are external; they *)
(* are modelled by what the calls made here hand to them.                  *)
(***************************************************************************)
EXTENDS Integers, Sequences, FiniteSets, TLC

(***************************************************************************)
(* Bounds of the model.                                                    *)
(***************************************************************************)
\* Largest number of states of an action an engine is built from.
MaxN == 3

\* Largest number of process_event calls made on one engine: enough for a
\* full cycle of 2*N alternating calls plus the call after the wrap.
MaxCalls == 2 * MaxN + 1

\* Largest number of key combinations recorded in one editing session.
MaxUpdates == 2

(***************************************************************************)
(* Program constants.                                                      *)
(***************************************************************************)
\* self.MAX_STATES = 10
MAX_STATES == 10

(***************************************************************************)
(* Keys and key combinations.                                              *)
(***************************************************************************)
\* A key as stored in chain_states: the tuple (scan_code, is_extended).
Key(scan_code, is_extended) == <<scan_code, is_extended>>

\* The physical inputs an engine is bound to.
Events == { "button1" }

(***************************************************************************)
(* Python list access: list[i] with a 0-based index; a negative index      *)
(* counts from the end.  Outside -len .. len-1 Python raises IndexError.   *)
(***************************************************************************)
InRange(list, i) == (-Len(list) <= i) /\ (i < Len(list))

PyGet(list, i) == IF i >= 0 THEN list[i + 1] ELSE list[Len(list) + i + 1]

(***************************************************************************)
(* gremlin.macro.Macro: an object (oid: its identity, the order in which   *)
(* the constructor allocated it) holding a sequence of key actions.        *)
(***************************************************************************)
Macro(oid) == [oid |-> oid, actions |-> <<>>]

\* press.press(gremlin.macro.key_from_code(key[0], key[1]))
MacroPress(m, key) ==
    [m EXCEPT !.actions = Append(@, [kind |-> "press", key |-> Key(key[1], key[2])])]

\* release.release(gremlin.macro.key_from_code(key[0], key[1]))
MacroRelease(m, key) ==
    [m EXCEPT !.actions = Append(@, [kind |-> "release", key |-> Key(key[1], key[2])])]

RECURSIVE PressAll(_, _, _)
\* for key in action.chain_states[i]: press.press(...)
PressAll(m, keys, k) ==
    IF k > Len(keys) THEN m ELSE PressAll(MacroPress(m, keys[k]), keys, k + 1)

RECURSIVE ReleaseAll(_, _, _)
\* for key in action.chain_states[i]: release.release(...)
ReleaseAll(m, keys, k) ==
    IF k > Len(keys) THEN m ELSE ReleaseAll(MacroRelease(m, keys[k]), keys, k + 1)

(***************************************************************************)
(* State.                                                                  *)
(***************************************************************************)
VARIABLES
    chain_states,   \* StateToggle.chain_states: list of key combinations
    num_states,     \* StateToggle.num_states
    phase,          \* "configured": no engine yet; "running": engine built
    functor,        \* the StateToggleFunctor's fields
    callbacks,      \* callbacks registered with ButtonReleaseActions, not yet invoked
    calls,          \* history: one record per process_event call, with the
                    \* macros the call handed to MacroManager().queue_macro
    fired,          \* history: the callbacks invoked so far (count) and what the
                    \* last one handed to MacroManager().queue_macro
    threads,        \* host threads inside a deactivation of process_event:
                    \* where each one is and what it has read
    id,             \* StateToggleWidget.id: the index _record_keys_cb stored
    updates,        \* number of _update_keys calls so far
    last,           \* history: the last operation on the action data, its
                    \* argument, the action data before it and how it ended
    document        \* the XML node last produced by _generate_xml or handed
                    \* to _parse_xml

vars == <<chain_states, num_states, phase, functor, callbacks, calls, fired,
          threads, id, updates, last, document>>

engine_vars == <<phase, functor, callbacks, calls, fired, threads>>

widget_vars == <<id, updates, last, document>>

\* The widget has no attribute id before the first _record_keys_cb; once
\* set, id is the one-element tuple of the index stored.
NoId == <<>>

\* No widget operation has run yet.
NoOp == [op |-> "create", arg |-> 0, keys |-> <<>>,
         pre_chain |-> <<>>, pre_num |-> 0, result |-> "None"]

\* ElementTree.Element(tag): a node with its attributes and child nodes.
Element(tag, attrib, children) ==
    [tag |-> tag, attrib |-> attrib, children |-> children]

\* No attributes.
NoAttrib == [name \in {} |-> <<>>]

\* No document has been produced or loaded yet.
NoDocument ==
    [node |-> Element("StateToggle", NoAttrib, <<>>),
     origin |-> "none", well_formed |-> TRUE, encodes |-> <<>>]

\* The host threads that deliver deactivations to one functor.
Threads == {1, 2}

\* A thread outside process_event.
Idle == [pc |-> "idle", tmp |-> 0]

\* No thread is inside process_event; lock tells whether the host serializes
\* the calls for one functor; start is the cursor before the first call and
\* queue what the threads handed to MacroManager().queue_macro.
NoThreads == [lock |-> TRUE, start |-> 0, queue |-> <<>>,
              proc |-> [t \in Threads |-> Idle]]

\* No callback has been invoked yet.
NoneFired == [count |-> 0, registered_at |-> 0, invoked_at |-> 0, macro |-> Macro(0)]

\* The functor's fields before StateToggleFunctor.__init__ has run.
NoFunctor ==
    [num_states |-> 0, current_toggle |-> 0,
     press |-> <<>>, needs_auto_release |-> <<>>, release |-> <<>>]

(***************************************************************************)
(* StateToggleFunctor.__init__                                             *)
(***************************************************************************)
\* needs_auto_release = True
NeedsAutoReleaseDefault == TRUE

RECURSIVE FunctorLoop(_, _, _, _)
\* for i in range(0, action.num_states): build press and release, append.
\* action.chain_states[i] raises IndexError when the list is shorter than
\* num_states; the lists a configuration can reach never are.
FunctorLoop(self, states, n, i) ==
    IF i >= n THEN self
    ELSE LET press   == PressAll(Macro(2 * i + 1), PyGet(states, i), 1)
             release == ReleaseAll(Macro(2 * i + 2), PyGet(states, i), 1)
         IN  FunctorLoop(
                 [self EXCEPT !.press = Append(@, press),
                              !.needs_auto_release = Append(@, NeedsAutoReleaseDefault),
                              !.release = Append(@, release)],
                 states, n, i + 1)

\* The engine __init__ returns for an action with these states.
FunctorInit(states, n) ==
    FunctorLoop([NoFunctor EXCEPT !.num_states = n, !.current_toggle = 0],
                states, n, 0)

(***************************************************************************)
(* StateToggleFunctor.process_event                                        *)
(***************************************************************************)
\* Variants of the cursor advance: without the modulo, stopping at the last
\* state instead of wrapping, and stepping by two.
NextToggleNoWrap(current_toggle, n) == current_toggle + 1

NextToggleSaturating(current_toggle, n) ==
    IF current_toggle + 1 < n THEN current_toggle + 1 ELSE current_toggle

NextToggleByTwo(current_toggle, n) == (current_toggle + 2) % n

\* self.current_toggle = (self.current_toggle + 1) % self.num_states
NextToggle(current_toggle, n) == (current_toggle + 1) % n

\* What one call does: the functor afterwards, the macros it queued (enq),
\* the callbacks it registered (reg), and how it ended.
Outcome(self, enq, reg, result) ==
    [self |-> self, enq |-> enq, reg |-> reg, result |-> result]

\* Variant of the activation branch that also advances the cursor.
PressBranchAdvancing(self, event) ==
    LET c == self.current_toggle IN
    IF ~InRange(self.press, c)
    THEN Outcome(self, <<>>, <<>>, "IndexError")
    ELSE Outcome([self EXCEPT !.current_toggle = (c + 1) % self.num_states],
                 <<PyGet(self.press, c)>>,
                 <<[event |-> event, registered_at |-> c]>>, "True")

\* if value.current: queue press[current_toggle]; register the callback
PressBranch(self, event) ==
    LET c == self.current_toggle IN
    IF ~InRange(self.press, c)
    THEN Outcome(self, <<>>, <<>>, "IndexError")
    ELSE LET enq == <<PyGet(self.press, c)>> IN
         IF ~InRange(self.needs_auto_release, c)
         THEN Outcome(self, enq, <<>>, "IndexError")
         ELSE IF PyGet(self.needs_auto_release, c)
              THEN Outcome(self, enq, <<[event |-> event, registered_at |-> c]>>, "True")
              ELSE Outcome(self, enq, <<>>, "True")

\* Variant of the deactivation branch that ignores a release no press is
\* pending for (the cursor's press macro was never queued: cursor still 0).
ReleaseBranchGuarded(self, event) ==
    LET c == self.current_toggle IN
    IF ~InRange(self.release, c)
    THEN Outcome(self, <<>>, <<>>, "IndexError")
    ELSE IF c = 0
         THEN Outcome(self, <<>>, <<>>, "True")
         ELSE Outcome([self EXCEPT !.current_toggle = (c + 1) % self.num_states],
                      <<PyGet(self.release, c)>>, <<>>, "True")

\* else: queue release[current_toggle]; advance the cursor
ReleaseBranch(self, event) ==
    LET c == self.current_toggle IN
    IF ~InRange(self.release, c)
    THEN Outcome(self, <<>>, <<>>, "IndexError")
    ELSE LET enq == <<PyGet(self.release, c)>> IN
         IF self.num_states = 0
         THEN Outcome(self, enq, <<>>, "ZeroDivisionError")
         ELSE Outcome([self EXCEPT !.current_toggle = NextToggle(c, self.num_states)],
                      enq, <<>>, "True")

\* Variant of the dispatch with the test of value.current inverted.
process_event_inverted(self, event, current) ==
    IF current THEN ReleaseBranch(self, event) ELSE PressBranch(self, event)

process_event(self, event, current) ==
    IF current THEN PressBranch(self, event) ELSE ReleaseBranch(self, event)

\* The body of the registered lambda, evaluated when it is invoked:
\* lambda: MacroManager().queue_macro(self.release[self.current_toggle])
CallbackMacro(self, registration) == PyGet(self.release, self.current_toggle)

(***************************************************************************)
(* The action configurations an engine is built from: lists of at most    *)
(* MaxN combinations (the empty list included), which run through          *)
(* ComboCycle from any of its places; num_states is the list's length.     *)
(***************************************************************************)
ComboCycle == << <<Key(30, FALSE)>>, <<Key(42, FALSE), Key(44, FALSE)>>, <<>> >>

Configs ==
    { [i \in 1..n |-> ComboCycle[((s + i - 2) % Len(ComboCycle)) + 1]] :
        n \in 0..MaxN, s \in 1..Len(ComboCycle) }

(***************************************************************************)
(* Specification of the engine: an action is configured, the host builds   *)
(* the functor from it, then delivers events and invokes callbacks.        *)
(***************************************************************************)
Init ==
    /\ chain_states \in Configs
    /\ num_states = Len(chain_states)
    /\ phase = "configured"
    /\ functor = NoFunctor
    /\ callbacks = <<>>
    /\ calls = <<>>
    /\ fired = NoneFired
    /\ threads = NoThreads
    /\ id = NoId
    /\ updates = 0
    /\ last = NoOp
    /\ document = NoDocument

\* functor = StateToggleFunctor(action)
Construct ==
    /\ phase = "configured"
    /\ functor' = FunctorInit(chain_states, num_states)
    /\ phase' = "running"
    /\ UNCHANGED <<chain_states, num_states, callbacks, calls, fired, threads, widget_vars>>

\* The host delivers one transition event of the bound input; at most max
\* calls are followed.
ProcessEventUpTo(max) ==
    /\ phase = "running"
    /\ Len(calls) < max
    /\ \E event \in Events, current \in BOOLEAN :
         LET out == process_event(functor, event, current) IN
         /\ functor' = out.self
         /\ callbacks' = callbacks \o out.reg
         /\ calls' = Append(calls,
                [event   |-> event,
                 current |-> current,
                 before  |-> functor.current_toggle,
                 after   |-> out.self.current_toggle,
                 enq     |-> out.enq,
                 reg     |-> out.reg,
                 result  |-> out.result])
    /\ UNCHANGED <<chain_states, num_states, phase, fired, threads, widget_vars>>

ProcessEvent == ProcessEventUpTo(MaxCalls)

\* The auto-release detector invokes the oldest registered callback, once,
\* at any time after its registration.
FireCallback ==
    /\ phase = "running"
    /\ callbacks # <<>>
    /\ fired' = [count         |-> fired.count + 1,
                 registered_at |-> Head(callbacks).registered_at,
                 invoked_at    |-> functor.current_toggle,
                 macro         |-> CallbackMacro(functor, Head(callbacks))]
    /\ callbacks' = Tail(callbacks)
    /\ UNCHANGED <<chain_states, num_states, phase, functor, calls, threads, widget_vars>>

Next == Construct \/ ProcessEvent \/ FireCallback

Spec == Init /\ [][Next]_vars

(***************************************************************************)
(* StateToggleWidget: the editor of the action data.                       *)
(***************************************************************************)
\* The key objects the input listener hands to _update_keys.
RecordedKeys ==
    { <<[scan_code |-> 30, is_extended |-> FALSE]>>,
      <<[scan_code |-> 42, is_extended |-> FALSE],
        [scan_code |-> 44, is_extended |-> TRUE]>> }

RECURSIVE AppendEmpty(_, _)
\* for i in range(0, count): chain_states.append([])
AppendEmpty(chain, count) ==
    IF count <= 0 THEN chain ELSE AppendEmpty(Append(chain, <<>>), count - 1)

RECURSIVE PopLoop(_, _)
\* for i in range(0, count): chain_states.pop()
\* pop() on an empty list raises IndexError and ends the loop.
PopLoop(chain, count) ==
    IF count <= 0 THEN [chain |-> chain, result |-> "None"]
    ELSE IF chain = <<>> THEN [chain |-> chain, result |-> "IndexError"]
    ELSE PopLoop(SubSeq(chain, 1, Len(chain) - 1), count - 1)

\* Variant of the resize whose growing loop stops one combination short.
states_changed_cb_short(chain, num, value) ==
    IF value > num
    THEN [chain_states |-> AppendEmpty(chain, value - num - 1),
          num_states   |-> value,
          result       |-> "None"]
    ELSE [chain_states |-> PopLoop(chain, num - value).chain,
          num_states   |-> value,
          result       |-> "None"]

\* Variant of the resize whose shrinking loop removes combinations from the
\* front of the list (pop(0)) instead of from its end.
states_changed_cb_pop_front(chain, num, value) ==
    IF value > num
    THEN [chain_states |-> AppendEmpty(chain, value - num),
          num_states   |-> value,
          result       |-> "None"]
    ELSE [chain_states |-> SubSeq(chain, num - value + 1, Len(chain)),
          num_states   |-> value,
          result       |-> "None"]

\* StateToggleWidget._states_changed_cb(value), on the action data
\* (chain, num): the data afterwards and how the call ended.
states_changed_cb(chain, num, value) ==
    IF value > num
    THEN [chain_states |-> AppendEmpty(chain, value - num),
          num_states   |-> value,
          result       |-> "None"]
    ELSE LET popped == PopLoop(chain, num - value) IN
         IF popped.result = "None"
         THEN [chain_states |-> popped.chain,
               num_states   |-> value,
               result       |-> "None"]
         ELSE [chain_states |-> popped.chain,
               num_states   |-> num,
               result       |-> popped.result]

\* [(key.scan_code, key.is_extended) for key in keys]
KeyTuples(keys) ==
    [k \in 1..Len(keys) |-> Key(keys[k].scan_code, keys[k].is_extended)]

\* StateToggleWidget._update_keys(keys) with self.id = index:
\* chain_states[index] = [...] raises IndexError outside the list.
update_keys(chain, index, keys) ==
    IF InRange(chain, index)
    THEN [chain_states |->
              [chain EXCEPT ![IF index >= 0 THEN index + 1
                                            ELSE Len(chain) + index + 1] =
                                KeyTuples(keys)],
          result |-> "None"]
    ELSE [chain_states |-> chain, result |-> "IndexError"]

\* The history record of a widget operation.
Op(op, arg, keys, result) ==
    [op |-> op, arg |-> arg, keys |-> keys,
     pre_chain |-> chain_states, pre_num |-> num_states, result |-> result]

\* StateToggle.__init__: chain_states = [], num_states = 0.
InitConfig ==
    /\ chain_states = <<>>
    /\ num_states = 0
    /\ phase = "configured"
    /\ functor = NoFunctor
    /\ callbacks = <<>>
    /\ calls = <<>>
    /\ fired = NoneFired
    /\ threads = NoThreads
    /\ id = NoId
    /\ updates = 0
    /\ last = NoOp
    /\ document = NoDocument

\* Variant of the resize in which the engine's num_states is the action's:
\* the engine sees the new count.
StatesChangedAliased(values) ==
    \E value \in values :
        LET out == states_changed_cb(chain_states, num_states, value) IN
        /\ chain_states' = out.chain_states
        /\ num_states' = out.num_states
        /\ last' = Op("states_changed", value, <<>>, out.result)
        /\ functor' = [functor EXCEPT !.num_states = out.num_states]
        /\ UNCHANGED <<id, updates, document, phase, callbacks, calls, fired, threads>>

\* _states_changed_cb(value) with one of values.
StatesChangedWith(values) ==
    \E value \in values :
        LET out == states_changed_cb(chain_states, num_states, value) IN
        /\ chain_states' = out.chain_states
        /\ num_states' = out.num_states
        /\ last' = Op("states_changed", value, <<>>, out.result)
        /\ UNCHANGED <<id, updates, document, engine_vars>>

\* The spin box delivers a value of its range, setRange(0, MAX_STATES).
StatesChanged == StatesChangedWith(0..MAX_STATES)

\* _record_keys_cb(id) with one of ids.
RecordKeysCbWith(ids) ==
    \E i \in ids :
        /\ id' = <<i>>
        /\ last' = Op("record_keys", i, <<>>, "None")
        /\ UNCHANGED <<chain_states, num_states, updates, document, engine_vars>>

\* The user clicks "Record State i", one button per state.
RecordKeysCb == RecordKeysCbWith(0..(num_states - 1))

\* The listener dialog delivers the keys pressed to _update_keys.
UpdateKeys ==
    /\ id # NoId
    /\ updates < MaxUpdates
    /\ \E keys \in RecordedKeys :
         LET out == update_keys(chain_states, id[1], keys) IN
         /\ chain_states' = out.chain_states
         /\ last' = Op("update_keys", id[1], KeyTuples(keys), out.result)
    /\ updates' = updates + 1
    /\ UNCHANGED <<num_states, id, document, engine_vars>>

NextConfig == StatesChanged \/ RecordKeysCb \/ UpdateKeys

SpecConfig == InitConfig /\ [][NextConfig]_vars

(***************************************************************************)
(* Persistence: StateToggle._generate_xml and StateToggle._parse_xml.       *)
(* A Python str is a sequence of characters; an XML node is a record of    *)
(* its tag, its attributes (name -> str) and its child nodes.              *)
(***************************************************************************)
\* Largest number of states of the lists and documents drawn for the codec
\* (beside the lists of MAX_STATES and MAX_STATES + 1 states).
MaxXmlStates == 2

DigitChars == <<"0", "1", "2", "3", "4", "5", "6", "7", "8", "9">>

RECURSIVE StrOfNat(_)
StrOfNat(n) ==
    IF n < 10 THEN <<DigitChars[n + 1]>>
    ELSE StrOfNat(n \div 10) \o <<DigitChars[(n % 10) + 1]>>

\* str(key[0]) for an int
StrOfInt(n) == IF n < 0 THEN <<"-">> \o StrOfNat(-n) ELSE StrOfNat(n)

\* str(key[1]) for a bool
StrOfBool(b) ==
    IF b THEN <<"T", "r", "u", "e">> ELSE <<"F", "a", "l", "s", "e">>

\* The digit a character stands for, -1 when it is no digit.
DigitOf(ch) ==
    IF \E d \in 1..10 : DigitChars[d] = ch
    THEN (CHOOSE d \in 1..10 : DigitChars[d] = ch) - 1
    ELSE -1

RECURSIVE NatOfDigits(_, _)
\* The number a sequence of digits denotes, most significant digit first.
NatOfDigits(text, acc) ==
    IF text = <<>> THEN acc
    ELSE NatOfDigits(Tail(text), 10 * acc + DigitOf(Head(text)))

AllDigits(text) ==
    /\ text # <<>>
    /\ \A k \in 1..Len(text) : DigitOf(text[k]) >= 0

\* node.get(name): the attribute's text, or None when the node has none.
AttrGet(node, name) ==
    IF name \in DOMAIN node.attrib
    THEN [present |-> TRUE, text |-> node.attrib[name]]
    ELSE [present |-> FALSE, text |-> <<>>]

\* int(value): TypeError for None, ValueError for a text that is no
\* decimal integer with an optional sign.
PyInt(value) ==
    IF ~value.present THEN [error |-> "TypeError", value |-> 0]
    ELSE LET text   == value.text
             signed == text # <<>> /\ Head(text) \in {"-", "+"}
             digits == IF signed THEN Tail(text) ELSE text
         IN  IF ~AllDigits(digits) THEN [error |-> "ValueError", value |-> 0]
             ELSE [error |-> "None",
                   value |-> IF signed /\ Head(text) = "-"
                             THEN 0 - NatOfDigits(digits, 0)
                             ELSE NatOfDigits(digits, 0)]

\* str.lower() on the letters the documents use.
LowerChar(ch) ==
    CASE ch = "T" -> "t"
      [] ch = "F" -> "f"
      [] OTHER    -> ch

Lower(text) == [k \in 1..Len(text) |-> LowerChar(text[k])]

\* gremlin.profile.parse_bool(value): "0"/"1" and, in any letter case,
\* "true"/"false" are booleans; any other text is an error.  The codec's
\* documents always carry the attribute.
parse_bool(value) ==
    IF ~value.present THEN [error |-> "ProfileError", value |-> FALSE]
    ELSE IF value.text \in { <<"0">>, <<"1">> }
         THEN [error |-> "None", value |-> value.text = <<"1">>]
    ELSE IF Lower(value.text) \in { <<"t", "r", "u", "e">>, <<"f", "a", "l", "s", "e">> }
         THEN [error |-> "None", value |-> Lower(value.text) = <<"t", "r", "u", "e">>]
    ELSE [error |-> "ProfileError", value |-> FALSE]

\* node.findall(tag): the direct children with that tag, in document order.
FindAll(node, tag) == SelectSeq(node.children, LAMBDA child : child.tag = tag)

\* key_node = Element("key"); set "scan-code" and "extended"
KeyNode(key) ==
    Element("key",
            ("scan-code" :> StrOfInt(key[1])) @@ ("extended" :> StrOfBool(key[2])),
            <<>>)

\* state_node = Element(self.subtag) with one key node per key, in order
StateNode(keys) ==
    Element("state", NoAttrib, [k \in 1..Len(keys) |-> KeyNode(keys[k])])

\* Variant of the serialization that writes a state's keys last key first.
generate_xml_reversed(chain) ==
    Element("StateToggle", NoAttrib,
            [i \in 1..Len(chain) |->
                StateNode([k \in 1..Len(chain[i]) |-> chain[i][Len(chain[i]) + 1 - k]])])

\* StateToggle._generate_xml
generate_xml(chain) ==
    Element("StateToggle", NoAttrib, [i \in 1..Len(chain) |-> StateNode(chain[i])])

RECURSIVE ParseKeys(_, _)
\* for child in state.findall("key"): keys.append((int(...), parse_bool(...)))
\* The first conversion that raises ends the loop.
ParseKeys(nodes, keys) ==
    IF nodes = <<>> THEN [keys |-> keys, result |-> "None"]
    ELSE LET scan     == PyInt(AttrGet(Head(nodes), "scan-code"))
             extended == parse_bool(AttrGet(Head(nodes), "extended"))
         IN  IF scan.error # "None" THEN [keys |-> keys, result |-> scan.error]
             ELSE IF extended.error # "None"
                  THEN [keys |-> keys, result |-> extended.error]
             ELSE ParseKeys(Tail(nodes),
                            Append(keys, Key(scan.value, extended.value)))

RECURSIVE ParseStates(_, _, _)
\* for state in node.findall(self.subtag): parse its keys, then
\* chain_states.append(keys) and num_states = num_states + 1.
\* An exception leaves what earlier iterations appended.
ParseStates(chain, num, states) ==
    IF states = <<>>
    THEN [chain_states |-> chain, num_states |-> num, result |-> "None"]
    ELSE LET parsed == ParseKeys(FindAll(Head(states), "key"), <<>>) IN
         IF parsed.result # "None"
         THEN [chain_states |-> chain, num_states |-> num, result |-> parsed.result]
         ELSE ParseStates(Append(chain, parsed.keys), num + 1, Tail(states))

\* Variant of the validity test: some state has keys.
is_valid_any_keys(chain) == \E i \in 1..Len(chain) : chain[i] # <<>>

\* StateToggle._is_valid
is_valid(chain) == Len(chain) > 0

\* Variant of the deserialization that appends the states without counting
\* them.
parse_xml_uncounted(chain, num, node) ==
    [ParseStates(chain, num, FindAll(node, "state")) EXCEPT !.num_states = num]

\* Variant of the deserialization that stops loading at MAX_STATES states.
parse_xml_capped(chain, num, node) ==
    ParseStates(chain, num,
                SubSeq(FindAll(node, "state"), 1,
                       IF Len(FindAll(node, "state")) < MAX_STATES
                       THEN Len(FindAll(node, "state")) ELSE MAX_STATES))

\* StateToggle._parse_xml(node) on the action data (chain, num).
parse_xml(chain, num, node) == ParseStates(chain, num, FindAll(node, "state"))

(***************************************************************************)
(* The lists and documents the codec is run on.                            *)
(***************************************************************************)
\* Key combinations: no key, one key, the same key twice, two keys.
XmlCombos ==
    { <<>>,
      <<Key(30, FALSE)>>,
      <<Key(30, FALSE), Key(30, FALSE)>>,
      <<Key(42, FALSE), Key(156, TRUE)>> }

RECURSIVE ListsOver(_, _)
\* The lists of n elements of set.
ListsOver(set, n) ==
    IF n = 0 THEN { <<>> }
    ELSE { Append(l, c) : l \in ListsOver(set, n - 1), c \in set }

\* A list of n states whose i-th combination is the key with scan code i.
NumberedList(n) == [i \in 1..n |-> <<Key(i, i % 2 = 0)>>]

\* The state lists an action holds when it is saved.
XmlLists ==
    UNION { ListsOver(XmlCombos, n) : n \in 0..MaxXmlStates }
        \cup { NumberedList(MAX_STATES) }

\* A document as the host hands it over: the node, where it comes from, and
\* (well-formed documents) the state list it encodes.
Document(node, origin, well_formed, encodes) ==
    [node |-> node, origin |-> origin,
     well_formed |-> well_formed, encodes |-> encodes]

\* A key element as written by hand.
RawKey(scan_code, extended) ==
    Element("key", ("scan-code" :> scan_code) @@ ("extended" :> extended), <<>>)

\* A node of another kind, which findall passes over.
Foreign == Element("comment", NoAttrib, <<>>)

\* Well-formed documents not produced by _generate_xml: more than
\* MAX_STATES states; foreign elements between states and between keys;
\* other spellings of the numbers and booleans.
WellFormedDocuments ==
    { Document(generate_xml(NumberedList(MAX_STATES + 1)), "external", TRUE,
               NumberedList(MAX_STATES + 1)),
      Document(Element("StateToggle", NoAttrib,
                   << Foreign,
                      Element("state", NoAttrib,
                              << RawKey(<<"4", "2">>, <<"F", "a", "l", "s", "e">>),
                                 Foreign,
                                 RawKey(<<"3", "0">>, <<"T", "r", "u", "e">>) >>),
                      Foreign,
                      Element("state", NoAttrib, <<>>) >>),
               "external", TRUE,
               << <<Key(42, FALSE), Key(30, TRUE)>>, <<>> >>),
      Document(Element("StateToggle", NoAttrib,
                   << Element("state", NoAttrib,
                              << RawKey(<<"0", "3", "0">>, <<"t", "r", "u", "e">>),
                                 RawKey(<<"+", "7">>, <<"0">>) >>) >>),
               "external", TRUE,
               << <<Key(30, TRUE), Key(7, FALSE)>> >>) }

\* A state element whose only key is well formed.
GoodState == StateNode(<<Key(30, FALSE)>>)

\* Documents with a malformed key entry: a scan code that is no integer, a
\* missing scan code, a text that is no boolean; in the first state of the
\* document, after a well-formed key, and after a well-formed state.
MalformedDocuments ==
    { Document(Element("StateToggle", NoAttrib, states), "external", FALSE, <<>>) :
        states \in
          { << Element("state", NoAttrib,
                       << RawKey(<<"a", "b", "c">>, <<"F", "a", "l", "s", "e">>) >>) >>,
            << Element("state", NoAttrib,
                       << KeyNode(Key(42, FALSE)),
                          Element("key", "extended" :> <<"T", "r", "u", "e">>, <<>>) >>),
               GoodState >>,
            << GoodState,
               Element("state", NoAttrib,
                       << RawKey(<<"4", "4">>, <<"m", "a", "y", "b", "e">>) >>) >>,
            << GoodState, GoodState,
               Element("state", NoAttrib,
                       << KeyNode(Key(44, TRUE)),
                          RawKey(<<"4", ".", "5">>, <<"T", "r", "u", "e">>) >>),
               GoodState >> } }

ExternalDocuments == WellFormedDocuments \cup MalformedDocuments

(***************************************************************************)
(* Specification of the codec: an action holding some state list is saved; *)
(* the host creates a new action and loads a document into it.             *)
(***************************************************************************)
InitXml ==
    /\ chain_states \in XmlLists
    /\ num_states = Len(chain_states)
    /\ phase = "configured"
    /\ functor = NoFunctor
    /\ callbacks = <<>>
    /\ calls = <<>>
    /\ fired = NoneFired
    /\ threads = NoThreads
    /\ id = NoId
    /\ updates = 0
    /\ last = NoOp
    /\ document = NoDocument

\* The host saves the profile: node = action._generate_xml()
GenerateXml ==
    /\ document' = Document(generate_xml(chain_states), "generate_xml", TRUE,
                            chain_states)
    /\ last' = Op("generate_xml", 0, <<>>, "None")
    /\ UNCHANGED <<chain_states, num_states, id, updates, engine_vars>>

\* The host creates an action: StateToggle.__init__
NewAction ==
    /\ last.op # "create"
    /\ chain_states' = <<>>
    /\ num_states' = 0
    /\ id' = NoId
    /\ last' = NoOp
    /\ UNCHANGED <<updates, document, engine_vars>>

\* action._parse_xml(node) with one of docs.
ParseXmlInto(docs) ==
    /\ \E doc \in docs :
         LET out == parse_xml(chain_states, num_states, doc.node) IN
         /\ chain_states' = out.chain_states
         /\ num_states' = out.num_states
         /\ document' = doc
         /\ last' = Op("parse_xml", 0, <<>>, out.result)
    /\ UNCHANGED <<id, updates, engine_vars>>

\* The host loads one of docs into the action it has just created.
ParseXmlFrom(docs) ==
    /\ last.op = "create"
    /\ ParseXmlInto(docs)

\* The documents at hand: the one saved last and the external ones.
Loadable ==
    ExternalDocuments \cup (IF document.origin = "none" THEN {} ELSE {document})

ParseXml == ParseXmlFrom(Loadable)

NextXml == GenerateXml \/ NewAction \/ ParseXml

SpecXml == InitXml /\ [][NextXml]_vars

(***************************************************************************)
(* Specification of the action data over its life: created empty or loaded *)
(* from the profile, then edited through the widget.                       *)
(***************************************************************************)
\* The documents of the profile: saved lists, a document of more than
\* MAX_STATES states, and a document whose second state is malformed.
ProfileDocuments ==
    { Document(generate_xml(l), "generate_xml", TRUE, l) :
        l \in { <<>>, << <<Key(30, FALSE)>> >>, << <<>>, <<Key(30, FALSE), Key(30, FALSE)>> >> } }
      \cup { doc \in ExternalDocuments :
                \/ Len(doc.encodes) > MAX_STATES
                \/ ~doc.well_formed /\ Len(FindAll(doc.node, "state")) = 2 }

\* The host loads the action from the profile right after creating it.
LoadProfile == ParseXmlFrom(ProfileDocuments)

\* Largest count the user sets in the spin box.
MaxDataStates == 3

NextData ==
    \/ LoadProfile
    \/ StatesChangedWith(0..MaxDataStates)
    \/ RecordKeysCb
    \/ UpdateKeys

SpecData == InitConfig /\ [][NextData]_vars

(***************************************************************************)
(* Specification of the handlers called directly, with arguments the       *)
(* widget's controls would not deliver.                                    *)
(***************************************************************************)
\* Largest in-range count and index of the direct calls.
MaxDirect == 2

DirectSizes == (-1..MaxDirect) \cup {MAX_STATES, MAX_STATES + 1}

DirectIds == -1..MaxDirect

NextDirect ==
    \/ StatesChangedWith(DirectSizes)
    \/ RecordKeysCbWith(DirectIds)
    \/ UpdateKeys

SpecDirect == InitConfig /\ [][NextDirect]_vars

(***************************************************************************)
(* Specification of a running engine whose action is edited: the host       *)
(* builds the functor from a configured action; afterwards events arrive   *)
(* and the user keeps editing the action through the widget.               *)
(***************************************************************************)
\* Number of process_event calls followed while the action is edited.
MaxLiveCalls == 2

\* Largest count set in the spin box while the engine runs: above the
\* largest engine.
MaxLiveStates == MaxN + 1

\* One editing session while the engine runs: the user may set the count,
\* then click a record button, then press the keys.
LiveEdit ==
    /\ phase = "running"
    /\ \/ last.op = "create" /\ StatesChangedWith(0..MaxLiveStates)
       \/ last.op \in {"create", "states_changed"} /\ RecordKeysCb
       \/ last.op = "record_keys" /\ UpdateKeys

NextLive ==
    \/ Construct
    \/ ProcessEventUpTo(MaxLiveCalls)
    \/ FireCallback
    \/ LiveEdit

SpecLive == Init /\ [][NextLive]_vars

(***************************************************************************)
(* Specification of two deactivations of one functor delivered by two host *)
(* threads.  The else branch of process_event takes three steps: line 215  *)
(* reads the cursor and queues release[cursor]; line 218 reads the cursor, *)
(* then writes the advanced value.  The functor is in any state its        *)
(* configuration allows.                                                   *)
(***************************************************************************)
InitRace ==
    /\ chain_states \in Configs
    /\ num_states = Len(chain_states)
    /\ phase = "running"
    /\ \E c \in 0..MaxN, lock \in BOOLEAN :
          /\ c = 0 \/ c < num_states
          /\ functor = [FunctorInit(chain_states, num_states) EXCEPT !.current_toggle = c]
          /\ threads = [NoThreads EXCEPT !.lock = lock, !.start = c]
    /\ callbacks = <<>>
    /\ calls = <<>>
    /\ fired = NoneFired
    /\ id = NoId
    /\ updates = 0
    /\ last = NoOp
    /\ document = NoDocument

\* Variant of the host's guarantee: calls are never held back.
MayEnterAlways(t) == TRUE

\* The host's guarantee: when it serializes the calls for one functor,
\* thread t enters process_event only while no other thread is inside.
MayEnter(t) ==
    threads.lock =>
        \A u \in Threads \ {t} : threads.proc[u].pc \in {"idle", "done", "raised"}

\* line 215: queue_macro(self.release[self.current_toggle])
RaceEnqueue(t) ==
    /\ threads.proc[t].pc = "idle"
    /\ MayEnter(t)
    /\ IF InRange(functor.release, functor.current_toggle)
       THEN threads' = [threads EXCEPT
                !.queue = Append(@, PyGet(functor.release, functor.current_toggle)),
                !.proc[t].pc = "queued"]
       ELSE threads' = [threads EXCEPT !.proc[t].pc = "raised"]
    /\ UNCHANGED <<chain_states, num_states, phase, functor, callbacks, calls,
                   fired, widget_vars>>

\* line 218, right-hand side: the thread reads self.current_toggle
RaceRead(t) ==
    /\ threads.proc[t].pc = "queued"
    /\ threads' = [threads EXCEPT !.proc[t] = [pc |-> "read", tmp |-> functor.current_toggle]]
    /\ UNCHANGED <<chain_states, num_states, phase, functor, callbacks, calls,
                   fired, widget_vars>>

\* line 218, assignment: self.current_toggle = (value read + 1) % num_states
RaceWrite(t) ==
    /\ threads.proc[t].pc = "read"
    /\ IF functor.num_states = 0
       THEN /\ threads' = [threads EXCEPT !.proc[t].pc = "raised"]
            /\ UNCHANGED functor
       ELSE /\ functor' = [functor EXCEPT
                    !.current_toggle = NextToggle(threads.proc[t].tmp, functor.num_states)]
            /\ threads' = [threads EXCEPT !.proc[t].pc = "done"]
    /\ UNCHANGED <<chain_states, num_states, phase, callbacks, calls, fired,
                   widget_vars>>

NextRace == \E t \in Threads : RaceEnqueue(t) \/ RaceRead(t) \/ RaceWrite(t)

SpecRace == InitRace /\ [][NextRace]_vars

(***************************************************************************)
(* Properties of the engine, checked under Spec.                           *)
(***************************************************************************)
Built == phase = "running"

N == functor.num_states

\* calls[from], ..., calls[from + len - 1] alternate activation and
\* deactivation, starting with an activation.
Alternating(from, len) ==
    \A j \in 0..(len - 1) : calls[from + j].current = (j % 2 = 0)

\* The deactivation calls processed so far.
Deactivations == { i \in 1..Len(calls) : ~calls[i].current }

\* C1: with N >= 1 states, after exactly 2*N process_event calls that
\* alternate activation and deactivation, starting with an activation,
\* current_toggle equals the value it had before the first of them.
C1_CycleReturnsToStart ==
    (Built /\ N >= 1) =>
        \A i \in 1..Len(calls) :
            (i + 2 * N - 1 <= Len(calls) /\ Alternating(i, 2 * N))
                => calls[i + 2 * N - 1].after = calls[i].before

\* A full alternating cycle of an engine with at least two states has been
\* processed, begun at a cursor other than 0.
C1_Witness ==
    /\ Built /\ N >= 2
    /\ \E i \in 1..Len(calls) :
         /\ i + 2 * N - 1 = Len(calls)
         /\ Alternating(i, 2 * N)
         /\ calls[i].before # 0
         /\ functor.current_toggle = calls[i].before

\* C2: with N >= 1 states, after any sequence of activations and
\* deactivations 0 <= current_toggle < N, and current_toggle is 0 right
\* after construction.
C2_CursorInRange ==
    /\ (Built /\ N >= 1) =>
           (0 <= functor.current_toggle /\ functor.current_toggle < N)
    /\ (Built /\ calls = <<>>) => functor.current_toggle = 0

\* The cursor has wrapped from N-1 to 0 in a sequence holding two
\* deactivations in a row and two activations in a row.
C2_Witness ==
    /\ Built /\ N >= 2
    /\ functor.current_toggle = 0
    /\ calls # <<>> /\ calls[Len(calls)].before = N - 1
    /\ \E i \in 1..(Len(calls) - 1) : ~calls[i].current /\ ~calls[i + 1].current
    /\ \E i \in 1..(Len(calls) - 1) : calls[i].current /\ calls[i + 1].current

\* C3: with N >= 1 states, current_toggle equals the number of deactivations
\* processed so far mod N (activations and callbacks leave it alone), and
\* each deactivation queues exactly one macro, release[c], c being the
\* cursor before that deactivation advanced it.
C3_CursorCountsDeactivations ==
    (Built /\ N >= 1) =>
        /\ functor.current_toggle = Cardinality(Deactivations) % N
        /\ \A i \in 1..Len(calls) :
             IF calls[i].current
             THEN calls[i].after = calls[i].before
             ELSE /\ calls[i].after = (calls[i].before + 1) % N
                  /\ calls[i].enq = <<PyGet(functor.release, calls[i].before)>>

\* Deactivations with no activation before them, activations and an invoked
\* callback have all happened, and the cursor is past 0.
C3_Witness ==
    /\ Built /\ N >= 2
    /\ Len(calls) >= 3 /\ ~calls[1].current /\ ~calls[2].current
    /\ \E i \in 1..Len(calls) : calls[i].current
    /\ fired.count >= 1
    /\ functor.current_toggle # 0

\* C4: on a fresh engine with N >= 1 states a deactivation processed before
\* any activation queues release[0] and leaves current_toggle at 1 mod N.
C4_DeactivationFirst ==
    (Built /\ N >= 1 /\ calls # <<>> /\ ~calls[1].current) =>
        /\ calls[1].before = 0
        /\ calls[1].enq = <<PyGet(functor.release, 0)>>
        /\ calls[1].after = 1 % N
        /\ calls[1].result = "True"

\* The only call so far is a deactivation, and the cursor is at 1.
C4_Witness ==
    /\ Built /\ N >= 2
    /\ Len(calls) = 1 /\ ~calls[1].current
    /\ functor.current_toggle = 1

\* C5: an activation processed with cursor c queues exactly one macro,
\* press[c], registers exactly one auto-release callback for the originating
\* event, and leaves current_toggle unchanged; needs_auto_release[i] is true
\* for every state i.  (A call that raises processes nothing: it queues and
\* registers nothing and leaves the cursor too.)
C5_ActivationEffect ==
    Built =>
        /\ Len(functor.needs_auto_release) = N
        /\ \A i \in 1..N : functor.needs_auto_release[i] = TRUE
        /\ \A i \in 1..Len(calls) :
             calls[i].current =>
                /\ calls[i].after = calls[i].before
                /\ (N >= 1) => calls[i].result = "True"
                /\ (calls[i].result = "True") =>
                      /\ calls[i].enq = <<PyGet(functor.press, calls[i].before)>>
                      /\ calls[i].reg = <<[event |-> calls[i].event,
                                           registered_at |-> calls[i].before]>>

\* The last call is an activation at a cursor past 0, and its callback is
\* the one registered last.
C5_Witness ==
    /\ Built /\ calls # <<>>
    /\ calls[Len(calls)].current
    /\ calls[Len(calls)].before >= 1
    /\ calls[Len(calls)].result = "True"
    /\ callbacks # <<>>
    /\ callbacks[Len(callbacks)].registered_at = functor.current_toggle

\* C6: in an alternating sequence that starts with an activation on a fresh
\* engine with N >= 1 states, process_event queues press[0], release[0],
\* press[1], release[1], ..., the state index wrapping from N-1 to 0.
C6_AlternatingOrder ==
    (Built /\ N >= 1 /\ Alternating(1, Len(calls))) =>
        \A j \in 1..Len(calls) :
            LET k == ((j - 1) \div 2) % N IN
            calls[j].enq = << IF j % 2 = 1 THEN PyGet(functor.press, k)
                                          ELSE PyGet(functor.release, k) >>

\* An alternating sequence has gone once round at least two states and
\* queued press[0] again.
C6_Witness ==
    /\ Built /\ N >= 2
    /\ Len(calls) >= 2 * N + 1
    /\ Alternating(1, Len(calls))
    /\ calls[2 * N + 1].enq = <<PyGet(functor.press, 0)>>

\* C7: the callback an activation at cursor c registered queues release[c]
\* when it is invoked, also when deactivations were processed in between.
C7_CallbackReleasesPressedState ==
    (Built /\ fired.count >= 1) =>
        fired.macro = PyGet(functor.release, fired.registered_at)

\* C8: no engine with zero states is ever built.
C8_NoZeroStateEngine ==
    Built => functor.num_states >= 1

\* C9: every process_event call, on every engine construction produces,
\* completes without raising and returns true.
C9_NeverRaises ==
    \A i \in 1..Len(calls) : calls[i].result = "True"

(***************************************************************************)
(* Properties of the widget, checked under SpecConfig.                     *)
(***************************************************************************)
\* C10: _states_changed_cb from k states to k+m states, k+m <= MAX_STATES and
\* m >= 1, appends exactly m empty combinations at the tail, leaves the
\* combinations at indices < k unchanged and in order, and sets num_states
\* to k+m.
C10_GrowAppendsEmpty ==
    (last.op = "states_changed" /\ last.arg > last.pre_num
        /\ last.arg <= MAX_STATES) =>
        /\ last.result = "None"
        /\ num_states = last.arg
        /\ Len(chain_states) = last.arg
        /\ SubSeq(chain_states, 1, last.pre_num) = last.pre_chain
        /\ \A i \in (last.pre_num + 1)..last.arg : chain_states[i] = <<>>

\* A list holding recorded combinations has just grown by more than one.
C10_Witness ==
    /\ last.op = "states_changed"
    /\ last.pre_num >= 2
    /\ last.arg >= last.pre_num + 2
    /\ last.pre_chain[1] # <<>>
    /\ last.pre_chain[last.pre_num] # <<>>
    /\ num_states = last.arg

\* C11: _states_changed_cb from k states to k-m states, 0 <= k-m and m >= 0,
\* removes exactly the last m combinations, leaves the first k-m unchanged
\* and in order, and sets num_states to k-m; a resize to the current size
\* changes nothing.
C11_ShrinkDropsTail ==
    (last.op = "states_changed" /\ 0 <= last.arg /\ last.arg <= last.pre_num) =>
        /\ last.result = "None"
        /\ num_states = last.arg
        /\ chain_states = SubSeq(last.pre_chain, 1, last.arg)
        /\ (last.arg = last.pre_num) => chain_states = last.pre_chain

\* A list has just lost more than one combination, a recorded one among
\* them, and keeps a recorded one in what is left.
C11_Witness ==
    /\ last.op = "states_changed"
    /\ last.arg >= 2
    /\ last.pre_num >= last.arg + 2
    /\ last.pre_chain[last.pre_num] # <<>>
    /\ last.pre_chain[1] = <<>>
    /\ last.pre_chain[last.arg] # <<>>
    /\ num_states = last.arg

(***************************************************************************)
(* Properties of the persistence, checked under SpecXml.                   *)
(***************************************************************************)
\* The last step loaded the current document into a fresh action.
Loaded ==
    /\ last.op = "parse_xml"
    /\ last.pre_chain = <<>>
    /\ last.pre_num = 0

\* C15: for every state list L of 0..MAX_STATES states, zero-key and
\* repeated-scan-code combinations included, _parse_xml into a fresh action
\* of the document _generate_xml made of L gives a list equal to L (same
\* states, same key order, same (scan_code, is_extended) pairs) and
\* num_states equal to that of L.
C15_RoundTrip ==
    (Loaded /\ document.origin = "generate_xml"
            /\ Len(document.encodes) <= MAX_STATES) =>
        /\ last.result = "None"
        /\ chain_states = document.encodes
        /\ num_states = Len(document.encodes)

\* A saved list holding a combination without keys and one that repeats a
\* scan code has been loaded back.
C15_Witness ==
    /\ Loaded
    /\ document.origin = "generate_xml"
    /\ \E i \in 1..Len(document.encodes) : document.encodes[i] = <<>>
    /\ \E i \in 1..Len(document.encodes) :
          /\ Len(document.encodes[i]) = 2
          /\ document.encodes[i][1] = document.encodes[i][2]
    /\ num_states = 2

\* C17: _parse_xml does not enforce MAX_STATES: a well-formed document with
\* n state elements, n > MAX_STATES included, loads into a fresh action
\* without error and gives num_states = n and the n combinations in document
\* order, each with its keys in document order.
C17_NoMaxStatesOnLoad ==
    (Loaded /\ document.well_formed) =>
        /\ last.result = "None"
        /\ num_states = Len(FindAll(document.node, "state"))
        /\ chain_states = document.encodes

\* A document of more than MAX_STATES states has been loaded.
C17_Witness ==
    /\ Loaded
    /\ document.well_formed
    /\ Len(FindAll(document.node, "state")) > MAX_STATES
    /\ num_states > MAX_STATES
    /\ chain_states[num_states] = <<Key(num_states, FALSE)>>

\* C18: a document with a malformed key entry makes the load fail and is
\* rejected as a whole: the state list and num_states after the failed load
\* are what they were before it.
C18_MalformedRejected ==
    (Loaded /\ ~document.well_formed) =>
        /\ last.result # "None"
        /\ chain_states = last.pre_chain
        /\ num_states = last.pre_num

(***************************************************************************)
(* Properties of the action data, checked under SpecData: resize requests  *)
(* are those of the spin box's range.                                      *)
(***************************************************************************)
\* C13: after creation and after every completed operation in any sequence
\* of _states_changed_cb, _update_keys and _parse_xml,
\* len(chain_states) = num_states.
C13_LengthIsNumStates == Len(chain_states) = num_states

\* A document of more than MAX_STATES states was loaded, the list resized,
\* and a state of it set.
C13_Witness ==
    /\ last.op = "update_keys"
    /\ last.result = "None"
    /\ Len(document.encodes) > MAX_STATES
    /\ num_states = 2
    /\ chain_states[1] = <<Key(1, FALSE)>>
    /\ Len(chain_states[2]) = 2

\* C16: _is_valid returns true iff num_states > 0, in every state reached by
\* creation, resize, set_state and deserialization.
C16_ValidIffStates == is_valid(chain_states) <=> num_states > 0

\* A loaded list with states has been resized to no state and is invalid.
C16_Witness ==
    /\ last.op = "states_changed"
    /\ document.origin # "none"
    /\ last.pre_num > 0
    /\ is_valid(last.pre_chain)
    /\ num_states = 0
    /\ ~is_valid(chain_states)

(***************************************************************************)
(* Properties of the handlers called directly, checked under SpecDirect.   *)
(***************************************************************************)
\* C12: a resize request with a count outside [0, MAX_STATES], such as
\* MAX_STATES + 1 or a negative count, is rejected and leaves the state list
\* and num_states as they were before the call.
C12_OutOfRangeRejected ==
    (last.op = "states_changed" /\ (last.arg < 0 \/ last.arg > MAX_STATES)) =>
        /\ chain_states = last.pre_chain
        /\ num_states = last.pre_num

\* C14: _update_keys with an index in [0, num_states) replaces only the
\* combination at that index and leaves the others and num_states
\* unchanged; with an index outside [0, num_states), negative or too large,
\* the call fails with an index error and changes no combination.
C14_SetStateIndexChecked ==
    (last.op = "update_keys") =>
        IF 0 <= last.arg /\ last.arg < last.pre_num
        THEN /\ last.result = "None"
             /\ num_states = last.pre_num
             /\ Len(chain_states) = Len(last.pre_chain)
             /\ \A i \in 1..Len(chain_states) :
                   chain_states[i] = IF i = last.arg + 1 THEN last.keys
                                     ELSE last.pre_chain[i]
        ELSE /\ last.result = "IndexError"
             /\ chain_states = last.pre_chain
             /\ num_states = last.pre_num

(***************************************************************************)
(* Properties of the running engine whose action is edited, checked under  *)
(* SpecLive.                                                               *)
(***************************************************************************)
\* The cursor is an index of both macro lists.
CursorValid(self) ==
    /\ InRange(self.press, self.current_toggle)
    /\ InRange(self.release, self.current_toggle)

\* What a step of a running engine and its action leaves alone.
NotAliasedStep ==
    phase = "running" =>
        \* the engine's count and macros never change
        /\ functor'.num_states = functor.num_states
        /\ functor'.press = functor.press
        /\ functor'.release = functor.release
        /\ Len(functor'.press) = functor.num_states
        \* a process_event call or callback leaves the action data
        /\ (calls' # calls \/ fired' # fired) =>
              /\ chain_states' = chain_states
              /\ num_states' = num_states
        \* a resize or set_state leaves the engine
        /\ (chain_states' # chain_states \/ num_states' # num_states) =>
              functor' = functor
        \* a valid cursor stays valid
        /\ CursorValid(functor) => CursorValid(functor')

\* C19: the engine and the action are not aliased: no process_event call
\* changes the action's chain_states or num_states; no resize or set_state
\* after the engine was built changes the engine's num_states, its press and
\* release macros or their count; and so the cursor of an engine with states
\* is a valid index into its press and release lists for its whole lifetime.
C19_NotAliased ==
    /\ []((phase = "running" /\ functor.num_states > 0) => CursorValid(functor))
    /\ [][NotAliasedStep]_vars

\* The engine of three states has advanced to its last state while the
\* action was shrunk to one state and that state was set: the cursor is
\* beyond the action's list and inside the engine's.
C19_Witness ==
    /\ phase = "running"
    /\ functor.num_states = 3
    /\ functor.current_toggle = 2
    /\ last.op = "update_keys"
    /\ last.result = "None"
    /\ num_states = 1
    /\ chain_states # <<ComboCycle[1]>>
    /\ Len(functor.release) = 3
    /\ CursorValid(functor)

(***************************************************************************)
(* Properties of concurrent deactivations, checked under SpecRace.         *)
(***************************************************************************)
\* Both threads have completed their deactivation of a functor with states.
BothDone ==
    /\ functor.num_states > 0
    /\ \A t \in Threads : threads.proc[t].pc = "done"

\* The release macro of the state k places after the starting cursor.
ReleaseAfter(k) ==
    PyGet(functor.release, (threads.start + k) % functor.num_states)

\* The cursor has advanced by k from the starting cursor.
AdvancedBy(k) ==
    functor.current_toggle = (threads.start + k) % functor.num_states

\* C20: a deactivation's cursor read, enqueue of release[cursor] and cursor
\* write form a critical section.  When the calls for one functor are
\* serialized, two deactivations enqueue the release macros of two
\* consecutive states and advance the cursor by 2 mod N, as two atomic
\* calls do.  When they interleave, the first enqueues the starting state's
\* release macro and the only other outcomes are that the second enqueues
\* the same macro again or that the cursor advances by 1 only.
C20_CriticalSection ==
    BothDone =>
        IF threads.lock
        THEN /\ threads.queue = <<ReleaseAfter(0), ReleaseAfter(1)>>
             /\ AdvancedBy(2)
             /\ LET f0 == [functor EXCEPT !.current_toggle = threads.start] IN
                functor = ReleaseBranch(ReleaseBranch(f0, "button1").self, "button1").self
        ELSE /\ Len(threads.queue) = 2
             /\ threads.queue[1] = ReleaseAfter(0)
             /\ threads.queue[2] \in {ReleaseAfter(0), ReleaseAfter(1)}
             /\ AdvancedBy(1) \/ AdvancedBy(2)
             /\ threads.queue[2] = ReleaseAfter(1) => AdvancedBy(2)

\* Two interleaved deactivations of a functor of three states have both
\* enqueued the release macro of the same state and moved the cursor by one
\* state only.
C20_Witness ==
    /\ BothDone
    /\ ~threads.lock
    /\ functor.num_states = 3
    /\ threads.queue[1] = threads.queue[2]
    /\ AdvancedBy(1)
    /\ ~AdvancedBy(2)

=============================================================================
